---- MODULE Spec2Model ----
(***************************************************************************)
(* The workflow engine of ts-toolbox (class Workflow): an ordered, mutable *)
(* list of steps, a persistent state slot, and start(), which runs the     *)
(* steps one at a time over a snapshot of the list with a mutable          *)
(* instruction pointer that the steps may redirect.                        *)
(*                                                                         *)
(* A step is user code: what it does with its context is a nondeterministic*)
(* choice.  Each thing a step can do with the context (assign a field,     *)
(* call finish/goto/gotoFirst/gotoLast, return, throw, settle the deferred *)
(* value it returned) is one action.                                       *)
(***************************************************************************)
EXTENDS Integers, Sequences, FiniteSets, TLC

\* ------------------------------------------------------------------ bounds
MaxActions == 3       \* longest step list built with then()/next()
MaxExec == 4          \* most step invocations of one run

\* ------------------------------------------------------------------ values
UNDEF == "undefined"
NULL == "null"
Values == {UNDEF, "v1", "v2"}
Thrown == {UNDEF, "e1"}              \* what a step may throw or reject with
RangeError == "Index out of range!"
TypeError == "result.then is not a function"
NoArgs == << >>                      \* a call that passes no argument
Steps == {"f", NULL}                 \* a step function, or an absent entry
NoIndex == 0 - 1                     \* prevIndx before it is assigned
RunIds == {"A", "B"}                 \* start() invocations that may be in flight

Truthy(v) == v \notin {UNDEF, NULL, "false", "0", ""}

VARIABLES
    actions,      \* Workflow._actions
    state,        \* Workflow.state
    pc,           \* per start(): idle | sync | async | resolved | rejected
    run,          \* per start(): the locals of the closure created by start()
    ctx,          \* per start(): the context of the step being executed
    promise,      \* per start(): the promise start() returned
    stack,        \* the runs whose synchronous section is on the call stack
    obs,          \* per start(): what an observer of the run has seen so far
    writer,       \* who assigned state last, and what has started since
    cleared       \* then()/next() calls since the last reset(), NoIndex if none

vars == <<actions, state, pc, run, ctx, promise, stack, obs, writer, cleared>>

\* ------------------------------------------------------------------ records
NoRun ==
    [allActions |-> << >>, executions |-> 0 - 1, index |-> 0 - 1,
     prevIndx |-> NoIndex, prevVal |-> UNDEF, result |-> UNDEF,
     value |-> UNDEF,
     action |-> UNDEF,        \* let action = allActions[index]
     deferred |-> "none",     \* the promise the step returned: none | settling |
                              \* never | pending | fulfilled | rejected
     settledWith |-> << >>]   \* the arguments it was resolved or rejected with

NoCtx ==
    [count |-> 0, executions |-> 0 - 1, index |-> 0 - 1, isBetween |-> FALSE,
     isFirst |-> FALSE, isLast |-> FALSE, nextValue |-> UNDEF,
     previousIndex |-> NoIndex, previousValue |-> UNDEF, result |-> UNDEF,
     value |-> UNDEF]

NoPromise == [status |-> "none", value |-> UNDEF, settles |-> 0]

NoCall == [op |-> "none", arg |-> 0]

\* How an invocation ended: none | sync | absent | fulfilled | rejected | thrown
NoLast == [called |-> NoCall, ended |-> "none", err |-> UNDEF]

NoObs ==
    [called |-> NoCall,                  \* control operations called by the current step
     last |-> NoLast,                    \* the invocation before it
     invoked |-> 0,                      \* step invocations of this run
     usedOp |-> FALSE,                   \* some step of this run called a control operation
     assigned |-> UNDEF,                 \* the value last assigned to ctx.result in this run
     valued |-> UNDEF,                   \* the value last given to ctx.value in this run
     nexted |-> UNDEF,                   \* the value the current step assigned to ctx.nextValue
     handed |-> UNDEF,                   \* the same of the invocation before it
     given |-> << >>,                    \* what the promise of the invocation before was settled with
     before |-> UNDEF,                   \* ctx.previousValue of the absent entry passed over last
     read |-> "no",                      \* ctx.workflowState as this run read it last: no | fresh | stale
     lost |-> FALSE,                     \* this run assigned the state after its read went stale
     startList |-> << >>,                \* Workflow._actions when start() was called
     afterReset |-> NoIndex,             \* cleared when start() was called
     initialValue |-> UNDEF]             \* the argument of start()

\* by: none | api | reset | step; value: the value assigned, for reset() the
\* argument it was called with.
NoWriter == [by |-> "none", since |-> "none", value |-> UNDEF, run |-> ""]

\* What the observer has seen once q ("": outside code) assigned the state:
\* what the other runs read before is stale, and a run that assigns after its
\* read went stale overwrites an assignment it has not seen.
Written(q) ==
    [r \in RunIds |->
        IF r # q /\ obs[r].read = "fresh" THEN [obs[r] EXCEPT !.read = "stale"]
        ELSE IF r = q /\ obs[r].read = "stale" THEN [obs[r] EXCEPT !.lost = TRUE]
        ELSE obs[r]]

Top(s) == IF s = << >> THEN "" ELSE s[Len(s)]

Without(s, r) == SelectSeq(s, LAMBDA x : x # r)

\* The call stack after run r moved to position p.
StackAfter(r, p) ==
    IF p = "sync"
    THEN IF Top(stack) = r THEN stack ELSE Append(Without(stack, r), r)
    ELSE Without(stack, r)

\* ------------------------------------------------------------------ promise
resolve(p, v) ==
    IF p.status = "pending"
    THEN [status |-> "fulfilled", value |-> v, settles |-> p.settles + 1]
    ELSE [p EXCEPT !.settles = @ + 1]

reject(p, e) ==
    IF p.status = "pending"
    THEN [status |-> "rejected", value |-> e, settles |-> p.settles + 1]
    ELSE [p EXCEPT !.settles = @ + 1]

\* ------------------------------------------------------------------ engine
\* let allActions = me._actions.map(x => x)
snapshot(list) == [i \in 1..Len(list) |-> list[i]]

\* No copy is taken: the run works on the workflow's own list.
AllActionsLive(loc) == actions

\* The step list the run with locals loc works on.
AllActions(loc) == loc.allActions

\* list[i] of a zero-based array: undefined outside it.
ActionAt(list, i) == IF i + 1 \in DOMAIN list THEN list[i + 1] ELSE UNDEF

incrementSkips(i) == i + 2

\* ++index
increment(i) == i + 1

\* The run goes one index beyond the list.
pastEndLate(i, n) == i > n

\* index >= allActions.length
pastEnd(i, n) == i >= n

executionsKept(e) == e

\* ++executions
executions(e) == e + 1

\* The result is not handed on to the next step.
newCtxNoResult(loc, n) ==
    [count |-> n,
     executions |-> loc.executions,
     index |-> loc.index,
     isBetween |-> loc.index > 0 /\ loc.index < n - 1,
     isFirst |-> 0 = loc.index,
     isLast |-> n - 1 = loc.index,
     nextValue |-> UNDEF,
     previousIndex |-> loc.prevIndx,
     previousValue |-> loc.prevVal,
     result |-> UNDEF,
     value |-> loc.value]

\* The last step counts as one between.
newCtxBetween(loc, n) ==
    [count |-> n,
     executions |-> loc.executions,
     index |-> loc.index,
     isBetween |-> loc.index > 0 /\ loc.index < n,
     isFirst |-> 0 = loc.index,
     isLast |-> n - 1 = loc.index,
     nextValue |-> UNDEF,
     previousIndex |-> loc.prevIndx,
     previousValue |-> loc.prevVal,
     result |-> loc.result,
     value |-> loc.value]

\* The context built for the step at loc.index (loc: the locals, already
\* incremented).
newCtx(loc, n) ==
    [count |-> n,
     executions |-> loc.executions,
     index |-> loc.index,
     isBetween |-> loc.index > 0 /\ loc.index < n - 1,
     isFirst |-> 0 = loc.index,
     isLast |-> n - 1 = loc.index,
     nextValue |-> UNDEF,
     previousIndex |-> loc.prevIndx,
     previousValue |-> loc.prevVal,
     result |-> loc.result,
     value |-> loc.value]

stateAfterContextCleared(s) == UNDEF

\* Workflow.state once the context is built: the literal's
\* "workflowState: undefined" is replaced by the accessor and never reaches
\* the setter.
stateAfterContext(s) == s

\* The writer record when a later step (what = "step") or a later run
\* (what = "run") begins.
Later(w, what) ==
    IF w.by = "step" /\ (what = "run" \/ w.since = "same")
    THEN [w EXCEPT !.since = what]
    ELSE w

\* nextAction(), entered with the locals loc; p is the run's promise, o the
\* observer's record and w the writer record.
nextAction(r, loc, p, o, w) ==
    LET i == increment(loc.index)
        n == Len(AllActions(loc))
    IN  IF pastEnd(i, n)
        THEN /\ promise' = [promise EXCEPT ![r] = resolve(p, loc.result)]
             /\ run' = [run EXCEPT ![r] = [loc EXCEPT !.index = i]]
             /\ ctx' = [ctx EXCEPT ![r] = NoCtx]
             /\ pc' = [pc EXCEPT ![r] = "resolved"]
             /\ obs' = [obs EXCEPT ![r] = o]
             /\ stack' = StackAfter(r, "resolved")
             /\ writer' = w
             /\ UNCHANGED state
        ELSE LET l2 == [loc EXCEPT !.index = i, !.executions = executions(@),
                                   !.action = ActionAt(AllActions(loc), i),
                                   !.deferred = "none", !.settledWith = NoArgs]
             IN  /\ run' = [run EXCEPT ![r] = l2]
                 /\ ctx' = [ctx EXCEPT ![r] = newCtx(l2, n)]
                 /\ pc' = [pc EXCEPT ![r] = "sync"]
                 /\ obs' = [obs EXCEPT ![r] =
                              [o EXCEPT !.invoked = @ + 1, !.called = NoCall,
                                        !.handed = o.nexted, !.nexted = UNDEF]]
                 /\ stack' = StackAfter(r, "sync")
                 /\ promise' = [promise EXCEPT ![r] = p]
                 /\ state' = stateAfterContext(state)
                 /\ writer' = Later(w, "step")

\* The value a promise was fulfilled with is not looked at.
completedValueNext(args, c) == c.nextValue

\* What was handed over before is kept when the context hands over nothing.
completedValueKept(args, c) ==
    IF Len(args) > 0 THEN args[1]
    ELSE IF c.nextValue = UNDEF THEN c.previousValue ELSE c.nextValue

\* prevVal as actionCompleted(err, nextValue?) sets it; args: the arguments
\* after err.
completedValue(args, c) == IF Len(args) > 0 THEN args[1] ELSE c.nextValue

\* if (err)
isError(err) == Truthy(err)

\* actionCompleted(err, nextValue?)
actionCompleted(r, err, args, ended, cl) ==
    LET c == ctx[r]
        loc == [run[r] EXCEPT !.prevVal = completedValue(args, c),
                              !.prevIndx = c.index,
                              !.result = c.result,
                              !.value = c.value]
        o == [obs[r] EXCEPT !.last = [called |-> cl, ended |-> ended, err |-> err],
                            !.given = run[r].settledWith,
                            !.before = IF Truthy(run[r].action) THEN UNDEF
                                      ELSE c.previousValue]
    IN  IF isError(err)
        THEN /\ promise' = [promise EXCEPT ![r] = reject(@, err)]
             /\ run' = [run EXCEPT ![r] = loc]
             /\ ctx' = [ctx EXCEPT ![r] = NoCtx]
             /\ pc' = [pc EXCEPT ![r] = "rejected"]
             /\ obs' = [obs EXCEPT ![r] = o]
             /\ stack' = StackAfter(r, "rejected")
             /\ UNCHANGED <<state, writer>>
        ELSE nextAction(r, loc, promise[r], o, writer)

\* The exception is swallowed and the run goes on with the next step.
caughtGoesOn(r, e, cl) ==
    nextAction(r, run[r], promise[r],
               [obs[r] EXCEPT !.last = [called |-> cl, ended |-> "thrown", err |-> e]],
               writer)

\* The exception is swallowed and the run ends without an outcome.
caughtSilent(r, e, cl) ==
    /\ ctx' = [ctx EXCEPT ![r] = NoCtx]
    /\ pc' = [pc EXCEPT ![r] = "rejected"]
    /\ obs' = [obs EXCEPT ![r].last = [called |-> cl, ended |-> "thrown", err |-> e]]
    /\ stack' = StackAfter(r, "rejected")
    /\ UNCHANGED <<run, state, writer, promise>>

\* catch (e) { reject(e); } of nextAction
caught(r, e, cl) ==
    /\ promise' = [promise EXCEPT ![r] = reject(@, e)]
    /\ ctx' = [ctx EXCEPT ![r] = NoCtx]
    /\ pc' = [pc EXCEPT ![r] = "rejected"]
    /\ obs' = [obs EXCEPT ![r].last = [called |-> cl, ended |-> "thrown", err |-> e]]
    /\ stack' = StackAfter(r, "rejected")
    /\ UNCHANGED <<run, state, writer>>

\* ------------------------------------------------------------------ Workflow
Init ==
    /\ actions = << >>
    /\ state = UNDEF
    /\ pc = [r \in RunIds |-> "idle"]
    /\ run = [r \in RunIds |-> NoRun]
    /\ ctx = [r \in RunIds |-> NoCtx]
    /\ promise = [r \in RunIds |-> NoPromise]
    /\ stack = << >>
    /\ obs = [r \in RunIds |-> NoObs]
    /\ writer = NoWriter
    /\ cleared = NoIndex

then(action) ==
    /\ Len(actions) < MaxActions
    /\ actions' = Append(actions, action)
    /\ cleared' = IF cleared = NoIndex THEN NoIndex ELSE cleared + 1
    /\ UNCHANGED <<state, pc, run, ctx, promise, stack, obs, writer>>

next(action) == then(action)

setState(newValue) ==
    /\ state' = newValue
    /\ writer' = [by |-> "api", since |-> "none", value |-> newValue, run |-> ""]
    /\ obs' = Written("")
    /\ UNCHANGED <<actions, cleared, pc, run, ctx, promise, stack>>

resetState == setState(UNDEF)

\* The steps are kept.
resetKeepsActions(newStateValue) ==
    /\ state' = UNDEF
    /\ writer' = [by |-> "reset", since |-> "none", value |-> newStateValue,
                  run |-> ""]
    /\ obs' = Written("")
    /\ cleared' = 0
    /\ UNCHANGED <<actions, pc, run, ctx, promise, stack>>

\* this._actions = []; this.resetState(): newStateValue is not used.
reset(newStateValue) ==
    /\ actions' = << >>
    /\ state' = UNDEF
    /\ writer' = [by |-> "reset", since |-> "none", value |-> newStateValue,
                  run |-> ""]
    /\ obs' = Written("")
    /\ cleared' = 0
    /\ UNCHANGED <<pc, run, ctx, promise, stack>>

start(r, initialValue) ==
    /\ pc[r] \in {"idle", "resolved", "rejected"}
    /\ LET loc == [NoRun EXCEPT !.allActions = snapshot(actions),
                                !.value = initialValue]
           p == [status |-> "pending", value |-> UNDEF, settles |-> 0]
           o == [NoObs EXCEPT !.startList = actions,
                              !.afterReset = cleared,
                              !.initialValue = initialValue,
                              !.valued = initialValue]
       IN  nextAction(r, loc, p, o, Later(writer, "run"))
    /\ UNCHANGED <<actions, cleared>>

\* ------------------------------------------------------------------ a step
\* The synchronous part of the step function of run r is executing.
InSync(r) == pc[r] = "sync" /\ Top(stack) = r /\ Truthy(run[r].action)

\* Code of the step of run r is executing after it returned a deferred value.
InAsync(r) == pc[r] = "async" /\ stack = << >>

InStep(r) == InSync(r) \/ InAsync(r)

\* The control operations the current step has called, after one more.
Called(r, op, arg) ==
    IF obs[r].called.op = "none" THEN [op |-> op, arg |-> arg]
    ELSE [op |-> "many", arg |-> 0]

\* Enough invocations are left for a run that goes on at index t.
CanGoOn(r, t) ==
    LET n == ctx[r].count
    IN  run[r].executions + 1 + (IF t < n THEN n - t ELSE 0) <= MaxExec

finishIndexShort(n) == n - 2

\* index = allActions.length - 1
finishIndex(n) == n - 1

gotoFirstIndexZero(n) == 0

\* index = -1
gotoFirstIndex(n) == 0 - 1

gotoLastIndexEnd(n) == n - 1

\* index = allActions.length - 1 - 1
gotoLastIndex(n) == n - 1 - 1

\* --newIndex
decrement(newIndex) == newIndex - 1

\* The check is made on the index that was not decremented.
outOfRangeBefore(i, n) == i + 1 < 0 \/ i + 1 >= n

\* newIndex < 0 || newIndex >= allActions.length
outOfRange(i, n) == i < 0 \/ i >= n

\* One pointer is shared by the runs.
JumpAll(r, i, op, arg) ==
    /\ CanGoOn(r, i + 1)
    /\ run' = [q \in RunIds |-> [run[q] EXCEPT !.index = i]]
    /\ obs' = [obs EXCEPT ![r].called = Called(r, op, arg), ![r].usedOp = TRUE]
    /\ UNCHANGED <<actions, cleared, state, pc, ctx, promise, stack, writer>>

\* The context moves with the pointer.
JumpMovesContext(r, i, op, arg) ==
    /\ CanGoOn(r, i + 1)
    /\ run' = [run EXCEPT ![r].index = i]
    /\ ctx' = [ctx EXCEPT ![r].index = i + 1]
    /\ obs' = [obs EXCEPT ![r].called = Called(r, op, arg), ![r].usedOp = TRUE]
    /\ UNCHANGED <<actions, cleared, state, pc, promise, stack, writer>>

\* A control operation sets the run's pointer to i.
Jump(r, i, op, arg) ==
    /\ CanGoOn(r, i + 1)
    /\ run' = [run EXCEPT ![r].index = i]
    /\ obs' = [obs EXCEPT ![r].called = Called(r, op, arg), ![r].usedOp = TRUE]
    /\ UNCHANGED <<actions, cleared, state, pc, ctx, promise, stack, writer>>

finish(r) ==
    /\ InStep(r)
    /\ Jump(r, finishIndex(Len(AllActions(run[r]))), "finish", 0)

gotoFirst(r) ==
    /\ InStep(r)
    /\ Jump(r, gotoFirstIndex(Len(AllActions(run[r]))), "gotoFirst", 0)

gotoLast(r) ==
    /\ InStep(r)
    /\ Jump(r, gotoLastIndex(Len(AllActions(run[r]))), "gotoLast", 0)

\* ctx.goto(newIndex) that returns.
goto(r, newIndex) ==
    /\ InStep(r)
    /\ ~outOfRange(decrement(newIndex), Len(AllActions(run[r])))
    /\ Jump(r, decrement(newIndex), "goto", newIndex)

\* The pointer is assigned before the check.
gotoCaughtMoves(r, newIndex) ==
    /\ InStep(r)
    /\ outOfRange(decrement(newIndex), Len(AllActions(run[r])))
    /\ run' = [run EXCEPT ![r].index = decrement(newIndex)]
    /\ obs' = [obs EXCEPT ![r].called = Called(r, "gotoCaught", newIndex),
                          ![r].usedOp = TRUE]
    /\ UNCHANGED <<actions, cleared, state, pc, ctx, promise, stack, writer>>

\* ctx.goto(newIndex) that throws, in a step that catches the error.
gotoCaught(r, newIndex) ==
    /\ InStep(r)
    /\ outOfRange(decrement(newIndex), Len(AllActions(run[r])))
    /\ obs' = [obs EXCEPT ![r].called = Called(r, "gotoCaught", newIndex),
                          ![r].usedOp = TRUE]
    /\ UNCHANGED <<actions, cleared, state, pc, run, ctx, promise, stack, writer>>

\* ctx.goto(newIndex) that throws, in a step that does not catch the error:
\* the step throws it, or the deferred value it returned is rejected with it.
gotoThrown(r, newIndex) ==
    /\ InStep(r)
    /\ outOfRange(decrement(newIndex), Len(AllActions(run[r])))
    /\ IF InSync(r)
       THEN caught(r, RangeError, Called(r, "gotoThrown", newIndex))
       ELSE actionCompleted(r, RangeError, NoArgs, "rejected",
                            Called(r, "gotoThrown", newIndex))
    /\ UNCHANGED <<actions, cleared>>

\* ctx.value = v
setValue(r, v) ==
    /\ InStep(r)
    /\ ctx' = [ctx EXCEPT ![r].value = v]
    /\ obs' = [obs EXCEPT ![r].valued = v]
    /\ UNCHANGED <<actions, cleared, state, pc, run, promise, stack, writer>>

\* ctx.result = v
setResult(r, v) ==
    /\ InStep(r)
    /\ ctx' = [ctx EXCEPT ![r].result = v]
    /\ obs' = [obs EXCEPT ![r].assigned = v]
    /\ UNCHANGED <<actions, cleared, state, pc, run, promise, stack, writer>>

\* ctx.nextValue = v
setNextValue(r, v) ==
    /\ InStep(r)
    /\ ctx' = [ctx EXCEPT ![r].nextValue = v]
    /\ obs' = [obs EXCEPT ![r].nexted = v]
    /\ UNCHANGED <<actions, cleared, state, pc, run, promise, stack, writer>>

\* The accessor returns a value of the run.
workflowStateOfRun(r) == ctx[r].value

\* ctx.workflowState (get)
workflowState(r) == state

\* The step reads ctx.workflowState.
readWorkflowState(r) ==
    /\ InStep(r)
    /\ obs' = [obs EXCEPT ![r].read = "fresh"]
    /\ UNCHANGED <<actions, cleared, state, pc, run, ctx, promise, stack, writer>>

\* The value is kept in the context, not in the workflow.
setWorkflowStateOwn(r, newValue) ==
    /\ InStep(r)
    /\ writer' = [by |-> "step", since |-> "same", value |-> newValue, run |-> r]
    /\ obs' = Written(r)
    /\ UNCHANGED <<actions, cleared, state, pc, run, ctx, promise, stack>>

\* ctx.workflowState = newValue
setWorkflowState(r, newValue) ==
    /\ InStep(r)
    /\ state' = newValue
    /\ writer' = [by |-> "step", since |-> "same", value |-> newValue, run |-> r]
    /\ obs' = Written(r)
    /\ UNCHANGED <<actions, cleared, pc, run, ctx, promise, stack>>

\* The step returns nothing (or another falsy value).
returnVoid(r) ==
    /\ InSync(r)
    /\ actionCompleted(r, UNDEF, NoArgs, "sync", obs[r].called)
    /\ UNCHANGED <<actions, cleared>>

\* The absent entry is called like a step, which throws.
noActionCalled(r) ==
    /\ pc[r] = "sync"
    /\ Top(stack) = r
    /\ ~Truthy(run[r].action)
    /\ caught(r, TypeError, obs[r].called)
    /\ UNCHANGED <<actions, cleared>>

\* The entry is absent: no action.
noAction(r) ==
    /\ pc[r] = "sync"
    /\ Top(stack) = r
    /\ ~Truthy(run[r].action)
    /\ actionCompleted(r, UNDEF, NoArgs, "absent", obs[r].called)
    /\ UNCHANGED <<actions, cleared>>

\* Whatever the step returns is taken for a synchronous completion.
returnValueIgnored(r, v) ==
    /\ InSync(r)
    /\ actionCompleted(r, UNDEF, NoArgs, "sync", obs[r].called)
    /\ UNCHANGED <<actions, cleared>>

\* The step returns v, a value without a then method: if (result)
\* result.then(...) throws for a truthy one.
returnValue(r, v) ==
    /\ InSync(r)
    /\ IF Truthy(v)
       THEN caught(r, TypeError, obs[r].called)
       ELSE actionCompleted(r, UNDEF, NoArgs, "sync", obs[r].called)
    /\ UNCHANGED <<actions, cleared>>

\* The step throws e.
throw(r, e) ==
    /\ InSync(r)
    /\ caught(r, e, obs[r].called)
    /\ UNCHANGED <<actions, cleared>>

\* The step returns a deferred value, one that settles later or never does.
returnPromise(r, settling) ==
    /\ InSync(r)
    /\ pc' = [pc EXCEPT ![r] = "async"]
    /\ run' = [run EXCEPT ![r].deferred = IF settling THEN "settling" ELSE "never"]
    /\ stack' = StackAfter(r, "async")
    /\ UNCHANGED <<actions, cleared, state, ctx, promise, obs, writer>>

\* result.then's first handler, called with the arguments args.
onFulfilled(r, args) ==
    /\ InAsync(r)
    /\ run[r].deferred = "settling"
    /\ IF Len(args) > 0
       THEN actionCompleted(r, UNDEF, <<args[1]>>, "fulfilled", obs[r].called)
       ELSE actionCompleted(r, UNDEF, NoArgs, "fulfilled", obs[r].called)
    /\ UNCHANGED <<actions, cleared>>

\* result.then's second handler.
onRejected(r, err) ==
    /\ InAsync(r)
    /\ run[r].deferred = "settling"
    /\ actionCompleted(r, err, NoArgs, "rejected", obs[r].called)
    /\ UNCHANGED <<actions, cleared>>

\* The step returns a promise that is pending.
returnDeferred(r) ==
    /\ InSync(r)
    /\ pc' = [pc EXCEPT ![r] = "async"]
    /\ run' = [run EXCEPT ![r].deferred = "pending"]
    /\ stack' = StackAfter(r, "async")
    /\ UNCHANGED <<actions, cleared, state, ctx, promise, obs, writer>>

\* The code of the step calls resolve(...given) on the promise it returned.
resolveDeferred(r, given) ==
    /\ InAsync(r)
    /\ run[r].deferred = "pending"
    /\ run' = [run EXCEPT ![r].deferred = "fulfilled", ![r].settledWith = given]
    /\ UNCHANGED <<actions, cleared, state, pc, ctx, promise, stack, obs, writer>>

\* The code of the step calls reject(err) on the promise it returned.
rejectDeferred(r, err) ==
    /\ InAsync(r)
    /\ run[r].deferred = "pending"
    /\ run' = [run EXCEPT ![r].deferred = "rejected", ![r].settledWith = <<err>>]
    /\ UNCHANGED <<actions, cleared, state, pc, ctx, promise, stack, obs, writer>>

\* The arguments a promise resolved with given calls its fulfilment handler
\* with: always one, the fulfilment value.
handlerArguments(given) == <<IF Len(given) > 0 THEN given[1] ELSE UNDEF>>

\* The fulfilment handler is called while the promise is pending.
settledOrPending(r, how) ==
    \/ run[r].deferred = how
    \/ how = "fulfilled" /\ run[r].deferred = "pending"

\* The promise the step of run r returned has settled: a promise calls the
\* handlers passed to then() after it was fulfilled or rejected, not before.
settled(r, how) == run[r].deferred = how

\* The promise calls result.then's first handler.
thenFulfilled(r) ==
    /\ InAsync(r)
    /\ settled(r, "fulfilled")
    /\ LET args == handlerArguments(run[r].settledWith)
       IN  IF Len(args) > 0
           THEN actionCompleted(r, UNDEF, <<args[1]>>, "fulfilled", obs[r].called)
           ELSE actionCompleted(r, UNDEF, NoArgs, "fulfilled", obs[r].called)
    /\ UNCHANGED <<actions, cleared>>

\* The promise calls result.then's second handler.
thenRejected(r) ==
    /\ InAsync(r)
    /\ settled(r, "rejected")
    /\ actionCompleted(r, run[r].settledWith[1], NoArgs, "rejected", obs[r].called)
    /\ UNCHANGED <<actions, cleared>>

\* ------------------------------------------------------------------ behaviours
Indexes == (0 - 1) .. (MaxActions + 1)

FlowValues == {UNDEF, "v1"}

\* Run r is in flight.
Running(r) == pc[r] \in {"sync", "async"}

\* No run is in flight.
Quiet == \A r \in RunIds : pc[r] \notin {"sync", "async"}

\* Control flow: the list is built between runs; the steps of a run assign
\* value and result, call the control operations, return, throw, and settle
\* the deferred values they return.
FlowStep(r) ==
    \/ \E a \in Steps : Quiet /\ then(a)
    \/ \E a \in Steps : Quiet /\ next(a)
    \/ \E v \in {UNDEF} : start(r, v)
    \/ finish(r)
    \/ gotoFirst(r)
    \/ gotoLast(r)
    \/ \E n \in Indexes : goto(r, n)
    \/ \E n \in Indexes : gotoCaught(r, n)
    \/ \E n \in Indexes : gotoThrown(r, n)
    \/ \E v \in FlowValues : setValue(r, v)
    \/ \E v \in FlowValues : setResult(r, v)
    \/ returnVoid(r)
    \/ noAction(r)
    \/ \E e \in Thrown : throw(r, e)
    \/ \E b \in BOOLEAN : returnPromise(r, b)
    \/ \E a \in {NoArgs, <<UNDEF>>} : onFulfilled(r, a)
    \/ \E e \in Thrown : onRejected(r, e)

Next == FlowStep("A")

Spec == Init /\ [][Next]_vars

\* Shared data: the list and the state are changed at any time, by a step
\* or by outside code, also while a run is in flight; runs follow each other.
SharedStep(r) ==
    \/ \E a \in Steps : then(a)
    \/ \E a \in Steps : next(a)
    \/ \E v \in Values : setState(v)
    \/ resetState
    \/ \E v \in Values : reset(v)
    \/ \E v \in {UNDEF} : start(r, v)
    \/ \E v \in Values : setWorkflowState(r, v)
    \/ gotoFirst(r)
    \/ returnVoid(r)
    \/ noAction(r)
    \/ \E b \in {TRUE} : returnPromise(r, b)
    \/ \E a \in {NoArgs, <<UNDEF>>} : onFulfilled(r, a)

SharedNext == SharedStep("A")

SpecShared == Init /\ [][SharedNext]_vars

\* Values handed from step to step: the steps of a run assign value, result
\* and nextValue, jump, and return nothing or a promise, which their code
\* resolves or rejects later.
Resolved == {NoArgs, <<UNDEF>>, <<"v1">>}

ValueStep(r) ==
    \/ \E a \in Steps : Quiet /\ then(a)
    \/ \E v \in FlowValues : start(r, v)
    \/ gotoFirst(r)
    \/ \E v \in FlowValues : setValue(r, v)
    \/ \E v \in FlowValues : setResult(r, v)
    \/ \E v \in FlowValues : setNextValue(r, v)
    \/ returnVoid(r)
    \/ noAction(r)
    \/ returnDeferred(r)
    \/ \E g \in Resolved : resolveDeferred(r, g)
    \/ \E e \in Thrown : rejectDeferred(r, e)
    \/ thenFulfilled(r)
    \/ thenRejected(r)

ValueNext == ValueStep("A")

SpecValues == Init /\ [][ValueNext]_vars

\* Two runs in flight: start() is called again, by a step or by outside
\* code, while an earlier run is suspended or its step is executing.  The
\* list is built before, one step shorter than MaxActions allows; each run
\* is started once and jumps back at most once; the earlier run reads
\* ctx.workflowState, and both assign it, each its own value.
\* The run started first, and the value each run assigns to the state.
Earlier == "A"

ConcValue(r) == IF r = Earlier THEN "v1" ELSE "v2"

ConcStep(r) ==
    \/ \E a \in {"f"} : Quiet /\ Len(actions) < MaxActions - 1 /\ then(a)
    \/ \E v \in {UNDEF} :
          pc[r] = "idle" /\ (r = Earlier \/ Running(Earlier)) /\ start(r, v)
    \/ ~obs[r].usedOp /\ gotoFirst(r)
    \/ \E v \in {"v1"} : setValue(r, v)
    \/ r = Earlier /\ readWorkflowState(r)
    \/ \E v \in {ConcValue(r)} : setWorkflowState(r, v)
    \/ returnVoid(r)
    \/ \E b \in {TRUE} : returnPromise(r, b)
    \/ \E a \in {<<UNDEF>>} : onFulfilled(r, a)

ConcNext == ConcStep("A") \/ ConcStep("B")

SpecConc == Init /\ [][ConcNext]_vars

\* Jumps: the steps of a run call the control operations, also with indexes
\* that are out of range, and return a value of any kind or a promise.
Returned == {UNDEF, NULL, "false", "0", "", "true", "object"}

JumpStep(r) ==
    \/ \E a \in Steps : Quiet /\ then(a)
    \/ \E v \in {UNDEF} : start(r, v)
    \/ finish(r)
    \/ gotoFirst(r)
    \/ gotoLast(r)
    \/ \E n \in Indexes : goto(r, n)
    \/ \E n \in Indexes : gotoCaught(r, n)
    \/ \E n \in Indexes : gotoThrown(r, n)
    \/ \E v \in Returned : returnValue(r, v)
    \/ noAction(r)
    \/ \E b \in {TRUE} : returnPromise(r, b)
    \/ \E a \in {<<UNDEF>>} : onFulfilled(r, a)

JumpNext == JumpStep("A")

SpecJumps == Init /\ [][JumpNext]_vars

\* ------------------------------------------------------------------ fairness
\* A step that was invoked ends: it returns or throws, and the handlers of a
\* deferred value that settles are called.
StepEnds(r) ==
    \/ returnVoid(r)
    \/ noAction(r)
    \/ \E b \in BOOLEAN : returnPromise(r, b)
    \/ \E a \in {NoArgs, <<UNDEF>>} : onFulfilled(r, a)

FairSpec == Spec /\ WF_vars(StepEnds("A"))

\* Forward only: the control operations the steps call make the run go on
\* behind the calling step (finish, goto(n) with n beyond the index of the
\* step, gotoLast in a step that is not the last), and the promises the
\* steps return settle.
ForwardStep(r) ==
    \/ \E a \in Steps : Quiet /\ then(a)
    \/ \E v \in {UNDEF} : start(r, v)
    \/ finish(r)
    \/ \E n \in Indexes : n > ctx[r].index /\ goto(r, n)
    \/ \E n \in Indexes : n > ctx[r].index /\ gotoCaught(r, n)
    \/ \E n \in Indexes : n > ctx[r].index /\ gotoThrown(r, n)
    \/ ~ctx[r].isLast /\ gotoLast(r)
    \/ returnVoid(r)
    \/ noAction(r)
    \/ \E e \in Thrown : throw(r, e)
    \/ \E b \in {TRUE} : returnPromise(r, b)
    \/ \E a \in {<<UNDEF>>} : onFulfilled(r, a)
    \/ \E e \in Thrown : onRejected(r, e)

ForwardNext == ForwardStep("A")

\* A step that was invoked returns, and the promise it returned settles.
ForwardEnds(r) ==
    \/ returnVoid(r)
    \/ noAction(r)
    \/ \E b \in {TRUE} : returnPromise(r, b)
    \/ \E a \in {<<UNDEF>>} : onFulfilled(r, a)

FairForward == Init /\ [][ForwardNext]_vars /\ WF_vars(ForwardEnds("A"))

\* ------------------------------------------------------------------ properties
\* The invocation before the current one ended without an error.
LastOk(r) == obs[r].last.ended \in {"sync", "fulfilled"}

Count(r) == Len(obs[r].startList)

\* C1: in a run in which no step calls a control operation, the j-th step
\* invoked is the step at index j, synchronous or not; the run succeeds after
\* exactly as many invocations as the list has steps, with the value last
\* assigned to ctx.result (undefined if none was).
C1_InsertionOrder ==
    \A r \in RunIds :
        ~obs[r].usedOp =>
            /\ Running(r) => ctx[r].index = obs[r].invoked - 1
            /\ pc[r] = "resolved" =>
                  /\ obs[r].invoked = Count(r)
                  /\ promise[r].status = "fulfilled"
                  /\ promise[r].value = obs[r].assigned

C1_Witness ==
    /\ pc["A"] = "resolved"
    /\ ~obs["A"].usedOp
    /\ obs["A"].invoked = 3
    /\ obs["A"].last.ended = "fulfilled"
    /\ promise["A"].value = "v1"

\* C2: after a step that called finish() as its only control operation and
\* ended without an error, no step is invoked any more: the run has succeeded
\* with the result as that step left it.
C2_Finish ==
    \A r \in RunIds :
        (obs[r].last.called.op = "finish" /\ LastOk(r)) =>
            /\ pc[r] = "resolved"
            /\ promise[r].status = "fulfilled"
            /\ promise[r].value = obs[r].assigned

C2_Witness ==
    /\ obs["A"].last.called.op = "finish"
    /\ obs["A"].last.ended = "sync"
    /\ pc["A"] = "resolved"
    /\ obs["A"].invoked = 1
    /\ Count("A") = 3
    /\ promise["A"].value = "v1"

\* C3: after a step that called gotoFirst() as its only control operation and
\* ended without an error, the step being invoked is the one at index 0; the
\* executions counter goes on counting, and value and result are the ones the
\* run last had.
C3_GotoFirst ==
    \A r \in RunIds :
        (obs[r].last.called.op = "gotoFirst" /\ LastOk(r)) =>
            /\ Running(r)
            /\ ctx[r].index = 0
            /\ ctx[r].executions = obs[r].invoked - 1
            /\ ctx[r].executions >= 1
            /\ ctx[r].value = obs[r].valued
            /\ ctx[r].result = obs[r].assigned

C3_Witness ==
    /\ obs["A"].last.called.op = "gotoFirst"
    /\ LastOk("A")
    /\ ctx["A"].index = 0
    /\ ctx["A"].previousIndex = 1
    /\ ctx["A"].executions = 2
    /\ ctx["A"].value = "v1"
    /\ ctx["A"].result = "v1"

\* C4: a goto(n) with n outside [0, count) makes the run fail with the
\* out-of-range error, and no further step is invoked.
C4_GotoOutOfRange ==
    \A r \in RunIds :
        (/\ obs[r].last.called.op \in {"goto", "gotoThrown"}
         /\ obs[r].last.called.arg \notin 0 .. (Count(r) - 1)) =>
            /\ pc[r] = "rejected"
            /\ promise[r].status = "rejected"
            /\ promise[r].value = RangeError

\* C5: after a step that called goto(n), 0 <= n < count, as its only control
\* operation and ended without an error, the step being invoked is the one
\* at index n.
C5_GotoLands ==
    \A r \in RunIds :
        (/\ obs[r].last.called.op \in {"goto", "gotoCaught"}
         /\ obs[r].last.called.arg \in 0 .. (Count(r) - 1)
         /\ LastOk(r)) =>
            /\ Running(r)
            /\ ctx[r].index = obs[r].last.called.arg

\* C6: after a step whose deferred value was rejected with r, the run has
\* failed with r and no step is invoked any more, whatever r is.
C6_Rejection ==
    \A r \in RunIds :
        obs[r].last.ended = "rejected" =>
            /\ pc[r] = "rejected"
            /\ promise[r].status = "rejected"
            /\ promise[r].value = obs[r].last.err

\* C7: after a step that threw, the run has failed with what was thrown, no
\* step is invoked any more, and the outcome carries the error only.
C7_Throw ==
    \A r \in RunIds :
        obs[r].last.ended = "thrown" =>
            /\ pc[r] = "rejected"
            /\ ctx[r] = NoCtx
            /\ promise[r] = [status |-> "rejected", value |-> obs[r].last.err,
                             settles |-> 1]

C7_Witness ==
    /\ obs["A"].last.ended = "thrown"
    /\ obs["A"].last.called.op = "none"
    /\ obs["A"].invoked = 2
    /\ obs["A"].assigned = "v1"
    /\ promise["A"].status = "rejected"
    /\ promise["A"].value = "e1"

\* C8 as stated: every run that was started produces an outcome.
C8_AlwaysAnOutcome ==
    \A r \in RunIds : Running(r) ~> (pc[r] \in {"resolved", "rejected"})

\* C8, amended: a run in flight has produced no outcome, and a run that has
\* ended has produced exactly one, a success or a failure.
C8_OneOutcome ==
    \A r \in RunIds :
        /\ promise[r].settles <= 1
        /\ Running(r) => (promise[r].status = "pending" /\ promise[r].settles = 0)
        /\ pc[r] = "resolved" =>
              (promise[r].status = "fulfilled" /\ promise[r].settles = 1)
        /\ pc[r] = "rejected" =>
              (promise[r].status = "rejected" /\ promise[r].settles = 1)

C8_Witness ==
    /\ pc["A"] = "rejected"
    /\ promise["A"].status = "rejected"
    /\ promise["A"].settles = 1
    /\ obs["A"].invoked = 3
    /\ obs["A"].last.ended = "rejected"

\* C9: a run works on the step list as it was when start() was called:
\* whatever then(), next() and reset() do to the workflow's list afterwards,
\* ctx.count is the length of that list and the step invoked at an index is
\* that list's entry at the index; without control operations the j-th step
\* invoked is its j-th entry, and the run succeeds after as many invocations
\* as it has entries.
C9_Snapshot ==
    \A r \in RunIds :
        /\ Running(r) =>
              /\ ctx[r].count = Count(r)
              /\ run[r].action = ActionAt(obs[r].startList, ctx[r].index)
              /\ ~obs[r].usedOp => ctx[r].index = obs[r].invoked - 1
        /\ (pc[r] = "resolved" /\ ~obs[r].usedOp) => obs[r].invoked = Count(r)

C9_Witness ==
    /\ pc["A"] = "async"
    /\ obs["A"].invoked = 2
    /\ Count("A") = 2
    /\ ~obs["A"].usedOp
    /\ Len(actions) = 3
    /\ actions[1] # obs["A"].startList[1]

\* C10: a value a step wrote to ctx.workflowState is what ctx.workflowState
\* reads in every later step of the run and in the steps of a later run, as
\* long as no step overwrites it and setState(), resetState() and reset()
\* are not called.
C10_StatePersists ==
    \A r \in RunIds :
        writer.by = "step" => workflowState(r) = writer.value

C10_Witness ==
    /\ writer = [by |-> "step", since |-> "run", value |-> "v2", run |-> "A"]
    /\ pc["A"] = "sync"
    /\ obs["A"].invoked = 2
    /\ workflowState("A") = "v2"

\* C11: the context of the j-th step invocation of a run (counted from 0)
\* carries executions = j: the counter starts at 0 with every start() and
\* goes up by one with every invocation, whatever jumps the steps make.
C11_Executions ==
    \A r \in RunIds :
        Running(r) =>
            /\ ctx[r].executions = obs[r].invoked - 1
            /\ run[r].executions = ctx[r].executions
            /\ ctx[r].executions >= 0

C11_Witness ==
    /\ pc["A"] = "sync"
    /\ obs["A"].usedOp
    /\ Count("A") = 2
    /\ ctx["A"].index = 1
    /\ ctx["A"].previousIndex = 0
    /\ ctx["A"].executions = 3

\* C12: after a step that called gotoLast() as its only control operation
\* and ended without an error, the step being invoked is the last one of the
\* list (index count - 1), and it is the invocation that follows directly.
C12_GotoLast ==
    \A r \in RunIds :
        (obs[r].last.called.op = "gotoLast" /\ LastOk(r)) =>
            /\ Running(r)
            /\ ctx[r].index = Count(r) - 1
            /\ ctx[r].isLast
            /\ run[r].action = ActionAt(obs[r].startList, Count(r) - 1)

C12_Witness ==
    /\ obs["A"].last.called.op = "gotoLast"
    /\ obs["A"].last.ended = "fulfilled"
    /\ Count("A") = 3
    /\ ctx["A"].previousIndex = 0
    /\ ctx["A"].index = 2
    /\ obs["A"].invoked = 2

\* C13: after reset() the step list is empty and the state is undefined,
\* whatever they were; the steps added by then()/next() since are the whole
\* list, from index 0 on; a run started with none added invokes no step and
\* succeeds with undefined.
C13_Reset ==
    /\ cleared # NoIndex => Len(actions) = cleared
    /\ writer.by = "reset" => state = UNDEF
    /\ \A r \in RunIds :
          obs[r].afterReset # NoIndex =>
              /\ Count(r) = obs[r].afterReset
              /\ Running(r) => ctx[r].index < obs[r].afterReset
              /\ obs[r].afterReset = 0 =>
                    /\ pc[r] = "resolved"
                    /\ obs[r].invoked = 0
                    /\ promise[r] = [status |-> "fulfilled", value |-> UNDEF,
                                     settles |-> 1]

C13_Witness ==
    /\ obs["A"].afterReset = 0
    /\ pc["A"] = "resolved"
    /\ obs["A"].invoked = 0
    /\ cleared = 1
    /\ Len(actions) = 1
    /\ writer.by = "reset"
    /\ state = UNDEF

\* C14: after reset(v) the state is v.
C14_ResetValue ==
    writer.by = "reset" => state = writer.value

\* The value a promise settled with given is fulfilled with.
FulfilmentValue(given) == IF given = NoArgs THEN UNDEF ELSE given[1]

C16_ResolvedWithNoValue ==
    \A r \in RunIds :
        (/\ Running(r)
         /\ obs[r].last.ended = "fulfilled"
         /\ obs[r].given = NoArgs) =>
            ctx[r].previousValue = obs[r].handed

\* C17: the context of the first invocation of a run has the value start()
\* was called with and an undefined result; the context of every later
\* invocation has the value and the result the context before it had when
\* its step completed, wherever the step made the run go on; a run that
\* succeeds does so with the result of the last context.
C17_ValueAndResult ==
    [][\A r \in RunIds :
         /\ (~Running(r) /\ Running(r)') =>
               /\ ctx'[r].value = obs'[r].initialValue
               /\ ctx'[r].result = UNDEF
         /\ (Running(r) /\ Running(r)' /\ obs'[r].invoked # obs[r].invoked) =>
               /\ ctx'[r].value = ctx[r].value
               /\ ctx'[r].result = ctx[r].result
         /\ (Running(r) /\ pc'[r] = "resolved") =>
               promise'[r].value = ctx[r].result]_vars

C17_Witness ==
    /\ pc["A"] = "sync"
    /\ obs["A"].initialValue = "v1"
    /\ obs["A"].last.called.op = "gotoFirst"
    /\ obs["A"].last.ended = "fulfilled"
    /\ ctx["A"].index = 0
    /\ ctx["A"].executions = 2
    /\ ctx["A"].value = UNDEF
    /\ ctx["A"].result = "v1"
    /\ obs["A"].valued = UNDEF
    /\ obs["A"].assigned = "v1"

\* The step of run r returned a promise that has not settled.
Unsettled(r) == pc[r] = "async" /\ run[r].deferred \in {"pending", "never"}

\* C18: a run has one context at a time: the context of the next invocation
\* is not built, and the run does not end, while the step of the current
\* one has not returned or the promise it returned has not settled; the
\* context of a run is the one of its latest invocation.
C18_OneContext ==
    [][\A r \in RunIds :
         /\ Unsettled(r) =>
               /\ pc'[r] = "async"
               /\ obs'[r].invoked = obs[r].invoked
               /\ ctx'[r].executions = ctx[r].executions
               /\ ctx'[r].index = ctx[r].index
         /\ (Running(r) /\ obs'[r].invoked # obs[r].invoked) =>
               \/ pc[r] = "sync" /\ run[r].deferred = "none"
               \/ pc[r] = "async" /\ run[r].deferred \in {"fulfilled", "rejected", "settling"}]_vars

C18_Witness ==
    /\ pc["A"] = "async"
    /\ run["A"].deferred = "pending"
    /\ obs["A"].invoked = 3
    /\ obs["A"].last.ended = "fulfilled"
    /\ obs["A"].given = <<"v1">>
    /\ ctx["A"].executions = 2

\* The pointer of run r as the control operations its current step called
\* leave it.
OwnIndex(r) ==
    LET c == obs[r].called
    IN  CASE c.op = "none" -> ctx[r].index
          [] c.op = "gotoCaught" -> ctx[r].index
          [] c.op = "finish" -> Count(r) - 1
          [] c.op = "gotoFirst" -> 0 - 1
          [] c.op = "gotoLast" -> Count(r) - 2
          [] c.op = "goto" -> c.arg - 1
          [] OTHER -> run[r].index

\* C19: of two runs in flight on one workflow each has its own step list,
\* pointer, executions counter, value and result: whatever the steps of the
\* other run do, a run works on the list as it was at its start(), its
\* pointer is where its own steps put it, its counter counts its own
\* invocations, and its contexts carry the value and the result its own
\* steps assigned and the previous index and value of its own last step.
C19_OwnLocals ==
    \A r \in RunIds :
        Running(r) =>
            /\ run[r].allActions = obs[r].startList
            /\ ctx[r].count = Count(r)
            /\ run[r].action = ActionAt(obs[r].startList, ctx[r].index)
            /\ run[r].index = OwnIndex(r)
            /\ ctx[r].executions = obs[r].invoked - 1
            /\ run[r].executions = ctx[r].executions
            /\ ctx[r].value = obs[r].valued
            /\ ctx[r].result = obs[r].assigned
            /\ ~obs[r].usedOp =>
                  /\ ctx[r].index = obs[r].invoked - 1
                  /\ ctx[r].previousIndex = obs[r].invoked - 2
            /\ ctx[r].previousValue = UNDEF

C19_Witness ==
    /\ pc["A"] = "async"
    /\ pc["B"] = "sync"
    /\ obs["A"].invoked = 3
    /\ obs["A"].last.called.op = "gotoFirst"
    /\ ctx["A"].index = 0
    /\ ctx["A"].value = "v1"
    /\ obs["B"].invoked = 1
    /\ obs["B"].called.op = "gotoFirst"
    /\ ctx["B"].index = 0
    /\ ctx["B"].value = UNDEF
    /\ run["B"].index = 0 - 1
    /\ run["A"].index = 0

\* C20: the runs in flight read and assign one state: what any of them
\* reads from ctx.workflowState is the value assigned last, by whichever
\* run; so a run whose step assigns the state after another run assigned it
\* replaces that value, also when it has not read it.
C20_SharedState ==
    \A r \in RunIds :
        \A q \in RunIds :
            (Running(r) /\ writer.by = "step" /\ writer.run = q) =>
                /\ workflowState(r) = writer.value
                /\ writer.value = ConcValue(q)

C20_Witness ==
    /\ obs["A"].lost
    /\ obs["A"].read = "stale"
    /\ writer.by = "step"
    /\ writer.run = "A"
    /\ Running("A")
    /\ Running("B")
    /\ workflowState("B") = ConcValue("A")

\* The pointer of run r is at an absent entry.
AtAbsent(r) == pc[r] = "sync" /\ ~Truthy(run[r].action)

\* C21: then()/next() take an absent step, and the run passes over the
\* entry: no step code runs for it, the run does not fail, it goes on with
\* the following index (or succeeds when the entry is the last), and the
\* value and the result are handed on as the step before left them.
C21_AbsentStep ==
    [][\A r \in RunIds :
         AtAbsent(r) =>
              /\ ctx[r].value = run[r].value
              /\ ctx[r].result = run[r].result
              /\ obs[r].called = NoCall
              /\ run[r].index = ctx[r].index
              /\ (pc'[r] # pc[r] \/ ctx'[r] # ctx[r]) =>
                    \/ /\ pc'[r] = "sync"
                       /\ ctx'[r].index = ctx[r].index + 1
                       /\ ctx'[r].value = ctx[r].value
                       /\ ctx'[r].result = ctx[r].result
                    \/ /\ pc'[r] = "resolved"
                       /\ ctx[r].index = ctx[r].count - 1
                       /\ promise'[r].status = "fulfilled"
                       /\ promise'[r].value = ctx[r].result]_vars

C21_Witness ==
    /\ pc["A"] = "sync"
    /\ obs["A"].last.ended = "absent"
    /\ obs["A"].startList = <<"f", NULL, "f">>
    /\ ctx["A"].index = 2
    /\ ctx["A"].previousIndex = 1
    /\ ctx["A"].value = "v1"
    /\ ctx["A"].result = "v1"
    /\ obs["A"].initialValue = UNDEF

\* C30: an absent entry is an invocation like any other: its context
\* carries executions one higher than the one before, and the step that
\* follows it sees executions one higher again, the index of the entry as
\* previousIndex and an undefined previousValue, whatever the entry's own
\* context was handed.
C30_AbsentCounted ==
    [][\A r \in RunIds :
         /\ (Running(r) /\ obs'[r].invoked # obs[r].invoked /\ AtAbsent(r)') =>
               /\ ctx'[r].executions = ctx[r].executions + 1
               /\ obs'[r].invoked = obs[r].invoked + 1
         /\ (AtAbsent(r) /\ Running(r)' /\ obs'[r].invoked # obs[r].invoked) =>
               /\ ctx'[r].executions = ctx[r].executions + 1
               /\ ctx'[r].previousIndex = ctx[r].index
               /\ ctx'[r].previousValue = UNDEF
               /\ obs'[r].before = ctx[r].previousValue]_vars

C30_Witness ==
    /\ pc["A"] = "sync"
    /\ run["A"].action = "f"
    /\ obs["A"].last.ended = "absent"
    /\ obs["A"].before = "v1"
    /\ ctx["A"].previousValue = UNDEF
    /\ ctx["A"].previousIndex = 1
    /\ ctx["A"].index = 2
    /\ ctx["A"].executions = 2

\* C22: a run that succeeded, and whose last step did not call finish(),
\* ended with the step at index count - 1.
C22_EndsAtLast ==
    \A r \in RunIds :
        (/\ pc[r] = "resolved"
         /\ Count(r) > 0
         /\ obs[r].last.called.op \notin {"finish", "many"}) =>
            run[r].prevIndx = Count(r) - 1

C24_Position ==
    \A r \in RunIds :
        Running(r) =>
            /\ ctx[r].count = Len(run[r].allActions)
            /\ ctx[r].index >= 0 /\ ctx[r].index < ctx[r].count
            /\ ctx[r].isFirst <=> ctx[r].index = 0
            /\ ctx[r].isLast <=> ctx[r].index = ctx[r].count - 1
            /\ ctx[r].isBetween <=> (~ctx[r].isFirst /\ ~ctx[r].isLast)

C24_Witness ==
    /\ pc["A"] = "sync"
    /\ ctx["A"].count = 1
    /\ ctx["A"].isFirst
    /\ ctx["A"].isLast
    /\ ~ctx["A"].isBetween
    /\ ctx["A"].executions = 1

\* C25: a control operation called by a step changes the pointer of the
\* run and leaves the context of the step as it is; the previousIndex of a
\* context is the index of the context before it, wherever the step before
\* made the run go on, and undefined in the first context of a run.
C25_PreviousIndex ==
    [][\A r \in RunIds :
         /\ (Running(r) /\ obs'[r].called # obs[r].called
                        /\ obs'[r].invoked = obs[r].invoked) =>
               ctx'[r] = ctx[r]
         /\ (Running(r) /\ Running(r)' /\ obs'[r].invoked # obs[r].invoked) =>
               ctx'[r].previousIndex = ctx[r].index
         /\ (~Running(r) /\ Running(r)') =>
               ctx'[r].previousIndex = NoIndex]_vars

C25_Witness ==
    /\ pc["A"] = "sync"
    /\ obs["A"].last.called = [op |-> "goto", arg |-> 1]
    /\ obs["A"].last.ended = "sync"
    /\ ctx["A"].index = 1
    /\ ctx["A"].previousIndex = 2
    /\ ctx["A"].executions = 2

\* C26: a ctx.goto(n) that throws changes nothing of the run; after a step
\* that caught the error, called no other control operation and completed,
\* the run has not failed and goes on with the step's index + 1.
C26_GotoThrowsNoMove ==
    [][\A r \in RunIds :
         /\ \A n \in Indexes :
               gotoCaught(r, n) =>
                   /\ run'[r] = run[r]
                   /\ ctx'[r] = ctx[r]
                   /\ pc'[r] = pc[r]
         /\ (/\ Running(r)
             /\ obs[r].called.op = "gotoCaught"
             /\ (pc'[r] = "resolved" \/ obs'[r].invoked # obs[r].invoked)) =>
               /\ Running(r)' => ctx'[r].index = ctx[r].index + 1
               /\ pc'[r] = "resolved" => ctx[r].index = ctx[r].count - 1]_vars

C26_Witness ==
    /\ pc["A"] = "sync"
    /\ obs["A"].last.called = [op |-> "gotoCaught", arg |-> 0]
    /\ obs["A"].last.ended = "sync"
    /\ ctx["A"].previousIndex = 1
    /\ ctx["A"].index = 2

\* C27: a step that returns a truthy value without a then method makes the
\* run fail with the type error, and no step is invoked any more; a step
\* that returns undefined, null, false, 0 or '' has completed, and the run
\* goes on.
C27_ReturnValue ==
    [][\A r \in RunIds : \A v \in Returned :
         returnValue(r, v) =>
             IF v \in {UNDEF, NULL, "false", "0", ""}
             THEN /\ pc'[r] \in {"sync", "resolved"}
                  /\ promise'[r].status # "rejected"
                  /\ obs'[r].last.ended = "sync"
                  /\ pc'[r] = "sync" => obs'[r].invoked = obs[r].invoked + 1
             ELSE /\ pc'[r] = "rejected"
                  /\ ctx'[r] = NoCtx
                  /\ obs'[r].invoked = obs[r].invoked
                  /\ promise'[r] = [status |-> "rejected", value |-> TypeError,
                                    settles |-> 1]]_vars

C27_Witness ==
    /\ pc["A"] = "rejected"
    /\ obs["A"].last.ended = "thrown"
    /\ obs["A"].last.err = TypeError
    /\ promise["A"].value = TypeError
    /\ obs["A"].invoked = 2
    /\ Count("A") = 3

\* The value assigned to the state last, by a step or on the workflow.
LastAssigned == IF writer.by \in {"none", "reset"} THEN UNDEF ELSE writer.value

\* C28: in a run in flight ctx.workflowState reads, and Workflow.state is,
\* the value assigned last, be it by a step through ctx.workflowState or by
\* setState(), resetState() or reset() on the workflow meanwhile; reset()
\* leaves the steps of the run in flight as they are.
C28_LiveAlias ==
    \A r \in RunIds :
        Running(r) =>
            /\ workflowState(r) = LastAssigned
            /\ state = LastAssigned
            /\ run[r].allActions = obs[r].startList
            /\ ctx[r].count = Count(r)
            /\ run[r].action = ActionAt(obs[r].startList, ctx[r].index)

C28_Witness ==
    /\ pc["A"] = "sync"
    /\ writer.by = "reset"
    /\ workflowState("A") = UNDEF
    /\ actions = << >>
    /\ cleared = 0
    /\ Count("A") = 2
    /\ ctx["A"].index = 1
    /\ run["A"].action = "f"
    /\ obs["A"].afterReset = NoIndex

\* C29: in a run whose steps make it go forward only and whose promises
\* settle, every step invoked has a higher index than the one before, no more
\* steps are invoked than the list has, and the run ends, with a success or
\* a failure.
C29_ForwardTerminates ==
    \A r \in RunIds :
        /\ [](/\ obs[r].invoked <= Count(r)
              /\ Running(r) => /\ ctx[r].index > ctx[r].previousIndex
                               /\ ctx[r].index >= obs[r].invoked - 1
                               /\ run[r].index >= ctx[r].index)
        /\ Running(r) ~> (pc[r] \in {"resolved", "rejected"})

C29_Witness ==
    /\ pc["A"] = "resolved"
    /\ Count("A") = 3
    /\ obs["A"].invoked = 2
    /\ obs["A"].usedOp
    /\ obs["A"].last.called.op = "none"
    /\ obs["A"].last.ended = "fulfilled"
    /\ run["A"].prevIndx = 2

====
